---------------------------- MODULE Spec2Model ----------------------------
(***************************************************************************)
(* Light-bar candidate pipeline of src/2/main.cpp: class ImageProcessor    *)
(* (construction, preprocessing, extractLightBars, filterLightBars) and    *)
(* the run of main().                                                      *)
(*                                                                         *)
(* A cv::Mat is a header (rows, cols, channels) that refers to a pixel     *)
(* buffer; copying a header shares the buffer, clone() makes a new one.    *)
(* The variable heap holds the buffers, one per C++ variable that owns     *)
(* one.  A buffer holds the pixels (row-major) and the sequence of drawing *)
(* commands applied to it by cv::rectangle and cv::putText.                *)
(*                                                                         *)
(* Library primitives: cvtColor(BGR2HSV), inRange, operator|, and          *)
(* morphologyEx are computed as OpenCV computes them for 8-bit images;     *)
(* cvtColor(BGR2GRAY), blur and GaussianBlur are kept as uninterpreted     *)
(* terms over their arguments; findContours / boundingRect / contourArea   *)
(* return some list of contour measurements drawn from ContourPool.        *)
(***************************************************************************)
EXTENDS Integers, Sequences, FiniteSets, TLC

\* ------------------------------------------------------------------ bounds

\* Most contours cv::findContours returns for one mask.
MaxContours == 2

\* ------------------------------------------------------- program constants

\* HSV bounds of cv::inRange (lower and upper are inclusive).
red_lower1 == <<0, 100, 100>>
red_upper1 == <<10, 255, 255>>
red_lower2 == <<160, 100, 100>>
red_upper2 == <<180, 255, 255>>
blue_lower == <<100, 100, 100>>
blue_upper == <<130, 255, 255>>

\* Side of the square structuring element of cv::getStructuringElement.
KernelSide == 3

\* Thresholds of isValidLightBar.  The model holds an area in half pixels
\* (area2: cv::contourArea of an integer polygon is a multiple of 0.5), so
\* area > 50 reads area2 > 2 * MinArea.
MinArea == 50
MaxArea == 5000
MinWidth == 3
MinHeight == 10

\* Value cv::inRange and the morphology write for a foreground pixel.
Foreground == 255

\* Kernel size main() passes to applyMeanBlur and applyGaussianBlur.
MainKernelSize == 5

\* -------------------------------------------------------------- cv::Mat

\* A cv::Mat variable is the name of the buffer its header refers to, or
\* NoBuf for a default-constructed cv::Mat.
NoBuf == "none"

\* The buffer of an empty cv::Mat.  rows x cols pixels of ch channels; op names
\* the primitive that produced the pixels and k its kernel size: "pixels" holds
\* decoded BGR pixels and "mask" 0/255 pixels, while "gray", "blur" and "gauss"
\* stand for cvtColor(BGR2GRAY), cv::blur and cv::GaussianBlur applied to px.
\* ink is the sequence of drawing commands applied to the buffer.
NoData == [rows |-> 0, cols |-> 0, ch |-> 0, op |-> "none", k |-> 0, px |-> <<>>, ink |-> <<>>]

\* The buffers, named after the C++ variable that owns each.
BufNames ==
    {"image", "grayImage", "blurredImage", "gaussianBlurred", "lightBarMask", "out",
     "visualResult"}

\* ---------------------------------------------- cvtColor(COLOR_BGR2HSV)

Max2(a, b) == IF a >= b THEN a ELSE b
Min2(a, b) == IF a <= b THEN a ELSE b

\* cvRound(n / d) for n >= 0, d > 0: round to nearest, ties to even.
RoundDiv(n, d) ==
    LET q == n \div d
        r == n % d
    IN  IF 2 * r > d THEN q + 1
        ELSE IF 2 * r = d THEN q + (q % 2)
        ELSE q

\* sdiv_table[v] and hdiv_table180[diff] of OpenCV's 8-bit RGB2HSV (hsv_shift = 12).
SDivTable(v) == IF v = 0 THEN 0 ELSE RoundDiv(255 * 4096, v)
HDivTable(diff) == IF diff = 0 THEN 0 ELSE RoundDiv(180 * 4096, 6 * diff)

\* One 8-bit BGR pixel <<b, g, r>> to <<h, s, v>>, h in 0..179.
BGR2HSV(p) ==
    LET b == p[1]
        g == p[2]
        r == p[3]
        v == Max2(b, Max2(g, r))
        vmin == Min2(b, Min2(g, r))
        diff == v - vmin
        s == (diff * SDivTable(v) + 2048) \div 4096
        h0 == IF v = r THEN g - b
              ELSE IF v = g THEN b - r + 2 * diff
              ELSE r - g + 4 * diff
        h1 == (h0 * HDivTable(diff) + 2048) \div 4096
        h == IF h1 < 0 THEN h1 + 180 ELSE h1
    IN  <<h, s, v>>

\* ------------------------------------------------------------- cv::inRange

\* 255 where lower <= pixel <= upper in every channel, else 0.
InRangePixel(p, lower, upper) ==
    IF \A k \in 1..3 : lower[k] <= p[k] /\ p[k] <= upper[k] THEN Foreground ELSE 0

InRange(px, lower, upper) ==
    [k \in 1..Len(px) |-> InRangePixel(px[k], lower, upper)]

\* operator| on two 8-bit masks whose pixels are 0 or 255.
BitOr(a, b) == [k \in 1..Len(a) |-> Max2(a[k], b[k])]

\* final_mask of extractLightBars before the morphology (lines 153-161).
\* RawMaskExclusive is RawMask with the bounds of every range left out.
RawMaskExclusive(hsv) ==
    LET in(p, lo, hi) == \A k \in 1..3 : lo[k] < p[k] /\ p[k] < hi[k]
    IN  [k \in 1..Len(hsv) |->
            IF in(hsv[k], red_lower1, red_upper1) \/ in(hsv[k], red_lower2, red_upper2)
               \/ in(hsv[k], blue_lower, blue_upper) THEN Foreground ELSE 0]
RawMask(hsv) ==
    LET red_mask1 == InRange(hsv, red_lower1, red_upper1)
        red_mask2 == InRange(hsv, red_lower2, red_upper2)
        blue_mask == InRange(hsv, blue_lower, blue_upper)
        red_mask == BitOr(red_mask1, red_mask2)
    IN  BitOr(red_mask, blue_mask)

\* --------------------------------------------------------- cv::morphologyEx

\* Indices of the pixels under a KernelSide x KernelSide rectangle centred on
\* pixel k that lie inside the rows x cols image.  Pixels outside the image
\* do not take part (OpenCV's default border value for morphology).
Neighbours(k, rows, cols) ==
    LET r == ((k - 1) \div cols) + 1
        c == ((k - 1) % cols) + 1
        reach == (KernelSide - 1) \div 2
    IN  { (rr - 1) * cols + cc :
            rr \in { x \in (r - reach)..(r + reach) : 1 <= x /\ x <= rows },
            cc \in { x \in (c - reach)..(c + reach) : 1 <= x /\ x <= cols } }

Erode(px, rows, cols) ==
    [k \in 1..Len(px) |->
        IF \A n \in Neighbours(k, rows, cols) : px[n] = Foreground THEN Foreground ELSE 0]

Dilate(px, rows, cols) ==
    [k \in 1..Len(px) |->
        IF \E n \in Neighbours(k, rows, cols) : px[n] = Foreground THEN Foreground ELSE 0]

\* MORPH_OPEN: erosion then dilation.  MORPH_CLOSE: dilation then erosion.
\* MorphOpenAsClose is the opening called with cv::MORPH_CLOSE.
MorphOpenAsClose(px, rows, cols) == Erode(Dilate(px, rows, cols), rows, cols)
MorphOpen(px, rows, cols) == Dilate(Erode(px, rows, cols), rows, cols)
MorphClose(px, rows, cols) == Erode(Dilate(px, rows, cols), rows, cols)


\* ------------------------------------------------- images the model decodes

\* 8-bit BGR colours, named by the HSV value BGR2HSV gives them.
Red == <<0, 0, 255>>           \* H 0
Orange10 == <<0, 85, 255>>     \* H 10
Orange11 == <<0, 94, 255>>     \* H 11
Magenta159 == <<175, 0, 255>>  \* H 159
Magenta160 == <<170, 0, 255>>  \* H 160
Crimson179 == <<5, 0, 255>>    \* H 179
Blue == <<255, 0, 0>>          \* H 120
Cyan99 == <<255, 175, 0>>      \* H 99
Cyan100 == <<255, 170, 0>>     \* H 100
Violet130 == <<255, 0, 85>>    \* H 130
Violet131 == <<255, 0, 89>>    \* H 131
PaleRed99 == <<156, 156, 255>> \* S 99
PaleRed100 == <<155, 155, 255>> \* S 100
DarkRed99 == <<0, 0, 99>>      \* V 99
DarkRed100 == <<0, 0, 100>>    \* V 100
Green == <<0, 255, 0>>         \* H 60
Black == <<0, 0, 0>>

Pixels(rows, cols, px) ==
    [rows |-> rows, cols |-> cols, ch |-> 3, op |-> "pixels", k |-> 0, px |-> px, ink |-> <<>>]

\* What cv::imread can decode in the model: BGR images of a few shapes whose
\* pixels sit on and next to every bound of the three HSV ranges.
ImagePool ==
    { Pixels(1, 1, <<Green>>),
      Pixels(1, 1, <<Red>>),
      Pixels(2, 2, <<Red, Blue, Magenta160, Orange10>>),
      Pixels(1, 4, <<Crimson179, Violet130, Green, Cyan100>>),
      Pixels(3, 3, <<Orange11, Magenta159, Cyan99, Violet131, PaleRed99,
                     DarkRed99, PaleRed100, DarkRed100, Black>>) }

\* ----------------------------------- findContours, boundingRect, contourArea

\* One contour as the classifier sees it: cv::contourArea in half pixels and
\* the cv::boundingRect.
Contour(area2, x, y, width, height) ==
    [area2 |-> area2, x |-> x, y |-> y, width |-> width, height |-> height]

\* The contours the model lets cv::findContours return.  They sit on and next
\* to every threshold of the classifier; the last three are degenerate.
ContourPool ==
    { Contour(360, 2, 9, 6, 30),       \* area 180, ratio 5.0
      Contour(100, 2, 9, 6, 30),       \* area 50
      Contour(102, 2, 9, 6, 30),       \* area 51
      Contour(9998, 1, 1, 40, 200),    \* area 4999
      Contour(10000, 1, 1, 40, 200),   \* area 5000
      Contour(120, 4, 3, 10, 15),      \* ratio 1.5
      Contour(120, 4, 3, 10, 16),      \* ratio 1.6
      Contour(120, 4, 3, 10, 79),      \* ratio 7.9
      Contour(120, 4, 3, 10, 80),      \* ratio 8.0
      Contour(120, 5, 6, 3, 12),       \* width 3
      Contour(120, 5, 6, 4, 12),       \* width 4
      Contour(120, 5, 6, 4, 10),       \* height 10
      Contour(120, 5, 6, 4, 11),       \* height 11
      Contour(800, 0, 0, 20, 22),      \* ratio 1.1
      Contour(0, 3, 3, 1, 1),          \* a single pixel
      Contour(0, 0, 0, 0, 0),          \* no points: empty rectangle
      Contour(120, 0, 0, 0, 12) }      \* width 0 with a height

\* All sequences over S of length lo..hi.
SeqsOf(S, lo, hi) == UNION { [1..n -> S] : n \in lo..hi }

NumForeground(px) == Cardinality({ k \in 1..Len(px) : px[k] = Foreground })

\* cv::findContours(binaryImage, contours, hierarchy, RETR_EXTERNAL,
\* CHAIN_APPROX_SIMPLE) on an 8-bit single-channel mask: no contour when no
\* pixel is set, otherwise at least one and at most one per set pixel.
FindContours(mask) ==
    LET n == NumForeground(mask.px)
    IN  IF n = 0 THEN { <<>> } ELSE SeqsOf(ContourPool, 1, Min2(MaxContours, n))

\* ------------------------------------------------------------ the classifier

\* The value of a double.  den = 0 is what IEEE 754 division by zero gives:
\* +infinity when num > 0 and NaN when num = 0.  trap marks a division that
\* raised SIGFPE, which integer division by zero does.
Quotient(num, den) == [trap |-> FALSE, num |-> num, den |-> den]
DivTrap == [trap |-> TRUE, num |-> 0, den |-> 1]

\* (double)boundingRect.height / boundingRect.width.  AspectRatioInt is the
\* division without the cast: int / int, which truncates and traps on zero.
AspectRatioInt(height, width) ==
    IF width = 0 THEN DivTrap ELSE Quotient(height \div width, 1)
AspectRatio(height, width) == Quotient(height, width)

\* 1.5 and 8.0 as fractions.
MinAspectRatio == <<3, 2>>
MaxAspectRatio == <<8, 1>>

\* a > q and a < q on doubles: +infinity is greater than every number and
\* every comparison with NaN is false.  For finite a = num / den of two ints
\* the quotient's rounding cannot cross 1.5 or 8.0, which are exact doubles.
FGreater(a, q) == IF a.den = 0 THEN a.num > 0 ELSE a.num * q[2] > q[1] * a.den
FLess(a, q) == IF a.den = 0 THEN FALSE ELSE a.num * q[2] < q[1] * a.den

\* bool isValidLightBar, lines 204-210.  IsValidLightBarInclusive has >= and
\* <= on the area and ratio bounds; IsValidLightBarNoHeight lacks the last test.
IsValidLightBarInclusive(area2, aspectRatio, width, height) ==
    /\ area2 >= 2 * MinArea
    /\ area2 <= 2 * MaxArea
    /\ ~FLess(aspectRatio, MinAspectRatio)
    /\ ~FGreater(aspectRatio, MaxAspectRatio)
    /\ width > MinWidth
    /\ height > MinHeight
IsValidLightBarNoHeight(area2, aspectRatio, width, height) ==
    /\ area2 > 2 * MinArea
    /\ area2 < 2 * MaxArea
    /\ FGreater(aspectRatio, MinAspectRatio)
    /\ FLess(aspectRatio, MaxAspectRatio)
    /\ width > MinWidth
IsValidLightBar(area2, aspectRatio, width, height) ==
    /\ area2 > 2 * MinArea
    /\ area2 < 2 * MaxArea
    /\ FGreater(aspectRatio, MinAspectRatio)
    /\ FLess(aspectRatio, MaxAspectRatio)
    /\ width > MinWidth
    /\ height > MinHeight

\* validLightBars.push_back(boundingRect).  PushFront inserts at the head.
PushFront(bars, rect) == <<rect>> \o bars
PushBack(bars, rect) == Append(bars, rect)

\* cv::Rect of a contour.
Rect(c) == [x |-> c.x, y |-> c.y, width |-> c.width, height |-> c.height]
NoRect == [x |-> 0, y |-> 0, width |-> 0, height |-> 0]

\* std::to_string(aspectRatio).substr(0, 4) for 1 <= aspectRatio < 10: "%f"
\* rounds to six decimals, and the first four characters are d.dd, held here
\* as the number ddd.
RatioText(a) == RoundDiv(a.num * 1000000, a.den) \div 10000

\* The two drawing commands for an accepted contour: cv::rectangle in green
\* with thickness 2, then cv::putText of "A:<area> R:<ratio>" at (x, y - 5).
DrawRectangle(rect) ==
    [kind |-> "rectangle", x |-> rect.x, y |-> rect.y, width |-> rect.width,
     height |-> rect.height, A |-> 0, R |-> 0]
PutText(rect, area2, a) ==
    [kind |-> "text", x |-> rect.x, y |-> rect.y - 5, width |-> 0, height |-> 0,
     A |-> area2 \div 2, R |-> RatioText(a)]

\* image.clone(): the buffer the new header refers to.  A clone owns the
\* fresh buffer dst; a header copy (cv::Mat b = a) would refer to src.
CloneShares(src, dst) == src
Clone(src, dst) == dst

\* ------------------------------------------------------------------- state

VARIABLES
    pc,               \* where the caller or the method it called stands
    error,            \* the exception the last call ended with, or NoError
    image,            \* ImageProcessor::image: NoBuf before construction
    heap,             \* heap[b]: the contents of buffer b
    visualResult,     \* the caller's cv::Mat passed as filterLightBars' out parameter
    filteredResult,   \* the cv::Mat filterLightBars returned
    final_mask,       \* extractLightBars' local final_mask
    binaryImage,      \* filterLightBars' parameter: the buffer it refers to
    contours,         \* filterLightBars' locals
    i,
    validLightBars,
    boundingRect,
    area,
    aspectRatio,
    isValidLightBar

vars ==
    <<pc, error, image, heap, visualResult, filteredResult, final_mask, binaryImage,
      contours, i, validLightBars, boundingRect, area, aspectRatio, isValidLightBar>>

extractLocals == <<final_mask>>
filterLocals ==
    <<binaryImage, contours, i, validLightBars, boundingRect, area, aspectRatio,
      isValidLightBar>>
callerMats == <<visualResult, filteredResult>>

NoError == [type |-> "none", by |-> "none", what |-> "none"]
ImageProcessorException(by, what) ==
    [type |-> "ImageProcessorException", by |-> by, what |-> what]
CvException(by, what) == [type |-> "cv::Exception", by |-> by, what |-> what]

\* cv::Mat::empty() of the cv::Mat variable m.
Empty(m) == m = NoBuf \/ heap[m].rows = 0 \/ heap[m].cols = 0

\* The state before the first statement; pc0 is where the caller starts.
InitAt(pc0) ==
    /\ pc = pc0
    /\ error = NoError
    /\ image = NoBuf
    /\ heap = [b \in BufNames |-> NoData]
    /\ visualResult = NoBuf
    /\ filteredResult = NoBuf
    /\ final_mask = NoData
    /\ binaryImage = NoBuf
    /\ contours = <<>>
    /\ i = 0
    /\ validLightBars = <<>>
    /\ boundingRect = NoRect
    /\ area = 0
    /\ aspectRatio = Quotient(0, 1)
    /\ isValidLightBar = FALSE

\* A throw statement: the exception leaves the method and the caller's
\* handler continues at fail.
Throw(e, fail) ==
    /\ error' = e
    /\ pc' = fail

\* ------------------------------------------------------------- constructor

\* What cv::imread(path) does: decodes an image, returns an empty cv::Mat
\* (unreadable path or format), or throws cv::Exception.
ImreadOutcomes ==
    { [kind |-> "mat", data |-> m] : m \in ImagePool \cup {NoData} }
        \cup { [kind |-> "throw", data |-> NoData] }

\* ImageProcessor::ImageProcessor(path).  ConstructorNoCheck is the
\* constructor without the image.empty() test of lines 35-38: whatever
\* cv::imread returned is kept.
ConstructorNoCheck(from, to, fail) ==
    /\ pc = from
    /\ \E r \in ImreadOutcomes :
         IF r.kind = "throw"
         THEN /\ Throw(ImageProcessorException("ImageProcessor", "OpenCV error"), fail)
              /\ UNCHANGED <<image, heap>>
         ELSE /\ image' = "image"
              /\ heap' = [heap EXCEPT !["image"] = r.data]
              /\ error' = NoError
              /\ pc' = to
    /\ UNCHANGED <<callerMats, extractLocals, filterLocals>>
Constructor(from, to, fail) ==
    /\ pc = from
    /\ \E r \in ImreadOutcomes :
         IF r.kind = "throw"
         THEN /\ Throw(ImageProcessorException("ImageProcessor", "OpenCV error"), fail)
              /\ UNCHANGED <<image, heap>>
         ELSE IF r.data.rows = 0 \/ r.data.cols = 0
         THEN /\ Throw(ImageProcessorException("ImageProcessor", "cannot load image"), fail)
              /\ UNCHANGED <<image, heap>>
         ELSE /\ image' = "image"
              /\ heap' = [heap EXCEPT !["image"] = r.data]
              /\ error' = NoError
              /\ pc' = to
    /\ UNCHANGED <<callerMats, extractLocals, filterLocals>>

\* ------------------------------------------------------------ preprocessing

\* void displayImageInfo() const: prints; reads the size and channel count.
displayImageInfo(from, to) ==
    /\ pc = from
    /\ pc' = to
    /\ error' = NoError
    /\ UNCHANGED <<image, heap, callerMats, extractLocals, filterLocals>>

\* cv::Size getImageSize() const: the size goes to the caller, who keeps it
\* in nothing the model holds.
getImageSize(from, to, fail) ==
    /\ pc = from
    /\ IF Empty(image)
       THEN Throw(ImageProcessorException("getImageSize", "image is empty"), fail)
       ELSE /\ error' = NoError
            /\ pc' = to
    /\ UNCHANGED <<image, heap, callerMats, extractLocals, filterLocals>>

\* int getChannels() const
getChannels(from, to, fail) ==
    /\ pc = from
    /\ IF Empty(image)
       THEN Throw(ImageProcessorException("getChannels", "image is empty"), fail)
       ELSE /\ error' = NoError
            /\ pc' = to
    /\ UNCHANGED <<image, heap, callerMats, extractLocals, filterLocals>>

\* cv::Mat getPixelData() const, its result assigned to the caller's dst.
getPixelData(from, to, fail, dst) ==
    /\ pc = from
    /\ IF Empty(image)
       THEN /\ Throw(ImageProcessorException("getPixelData", "image is empty"), fail)
            /\ UNCHANGED heap
       ELSE /\ heap' = [heap EXCEPT ![dst] = heap[image]]
            /\ error' = NoError
            /\ pc' = to
    /\ UNCHANGED <<image, callerMats, extractLocals, filterLocals>>

\* cv::Mat convertToGray() const
convertToGray(from, to, fail, dst) ==
    /\ pc = from
    /\ IF Empty(image)
       THEN /\ Throw(ImageProcessorException("convertToGray", "image is empty"), fail)
            /\ UNCHANGED heap
       ELSE /\ heap' = [heap EXCEPT ![dst] =
                          [heap[image] EXCEPT !.ch = 1, !.op = "gray", !.ink = <<>>]]
            /\ error' = NoError
            /\ pc' = to
    /\ UNCHANGED <<image, callerMats, extractLocals, filterLocals>>

\* The result of cv::blur or cv::GaussianBlur with a square kernel.
Blurred(src, op, kernelSize) == [src EXCEPT !.op = op, !.k = kernelSize, !.ink = <<>>]

\* cv::Mat applyMeanBlur(int kernelSize) const
applyMeanBlur(from, to, fail, dst, kernelSize) ==
    /\ pc = from
    /\ IF Empty(image)
       THEN /\ Throw(ImageProcessorException("applyMeanBlur", "image is empty"), fail)
            /\ UNCHANGED heap
       ELSE IF kernelSize <= 0 \/ kernelSize % 2 = 0
       THEN /\ Throw(ImageProcessorException("applyMeanBlur", "kernel size"), fail)
            /\ UNCHANGED heap
       ELSE /\ heap' = [heap EXCEPT ![dst] = Blurred(heap[image], "blur", kernelSize)]
            /\ error' = NoError
            /\ pc' = to
    /\ UNCHANGED <<image, callerMats, extractLocals, filterLocals>>

\* cv::Mat applyGaussianBlur(int kernelSize, double sigmaX) const; sigmaX is
\* always 1.0 and is not held.
applyGaussianBlur(from, to, fail, dst, kernelSize) ==
    /\ pc = from
    /\ IF Empty(image)
       THEN /\ Throw(ImageProcessorException("applyGaussianBlur", "image is empty"), fail)
            /\ UNCHANGED heap
       ELSE IF kernelSize <= 0 \/ kernelSize % 2 = 0
       THEN /\ Throw(ImageProcessorException("applyGaussianBlur", "kernel size"), fail)
            /\ UNCHANGED heap
       ELSE /\ heap' = [heap EXCEPT ![dst] = Blurred(heap[image], "gauss", kernelSize)]
            /\ error' = NoError
            /\ pc' = to
    /\ UNCHANGED <<image, callerMats, extractLocals, filterLocals>>

\* --------------------------------------------------------- extractLightBars

\* cv::Mat extractLightBars() const, lines 124-161: the guard, cvtColor to
\* HSV, the three cv::inRange masks and their union in final_mask.
extractLightBars(from, fail) ==
    /\ pc = from
    /\ IF Empty(image)
       THEN /\ Throw(ImageProcessorException("extractLightBars", "image is empty"), fail)
            /\ UNCHANGED final_mask
       ELSE LET src == heap[image]
                hsv_image == [k \in 1..Len(src.px) |-> BGR2HSV(src.px[k])]
            IN  /\ final_mask' = [src EXCEPT !.ch = 1, !.op = "mask",
                                             !.px = RawMask(hsv_image), !.ink = <<>>]
                /\ error' = NoError
                /\ pc' = "extract_open"
    /\ UNCHANGED <<image, heap, callerMats, filterLocals>>

\* line 165: cv::morphologyEx(final_mask, final_mask, cv::MORPH_OPEN, kernel)
extractLightBars_open ==
    /\ pc = "extract_open"
    /\ final_mask' = [final_mask EXCEPT
                         !.px = MorphOpen(final_mask.px, final_mask.rows, final_mask.cols)]
    /\ pc' = "extract_close"
    /\ UNCHANGED <<error, image, heap, callerMats, filterLocals>>

\* lines 166-169: MORPH_CLOSE in place, then return final_mask to the
\* caller's dst.
extractLightBars_close(to, dst) ==
    /\ pc = "extract_close"
    /\ heap' = [heap EXCEPT ![dst] =
                   [final_mask EXCEPT
                       !.px = MorphClose(final_mask.px, final_mask.rows, final_mask.cols)]]
    /\ final_mask' = NoData
    /\ pc' = to
    /\ UNCHANGED <<error, image, callerMats, filterLocals>>

\* ---------------------------------------------------------- filterLightBars

\* The values filterLightBars' locals hold outside a call.
FilterLocalsCleared ==
    /\ contours' = <<>>
    /\ i' = 0
    /\ validLightBars' = <<>>
    /\ boundingRect' = NoRect
    /\ area' = 0
    /\ aspectRatio' = Quotient(0, 1)
    /\ isValidLightBar' = FALSE

\* filterLightBars past its guard, lines 180-190: visualResult =
\* image.clone(), then cv::findContours on the mask.  findContours takes
\* 8-bit single-channel images only and throws cv::Exception otherwise.
\* The loop index i counts from 1 here and from 0 in the code.
filterLightBars_enter(fail, mask) ==
    LET target == Clone(image, "visualResult")
    IN  /\ visualResult' = target
        /\ heap' = [heap EXCEPT !["visualResult"] =
                      IF target = "visualResult" THEN heap[image] ELSE NoData]
        /\ IF mask.ch # 1
           THEN /\ Throw(CvException("filterLightBars", "findContours"), fail)
                /\ FilterLocalsCleared
           ELSE /\ \E found \in FindContours(mask) : contours' = found
                /\ i' = 1
                /\ validLightBars' = <<>>
                /\ error' = NoError
                /\ pc' = "filter_loop"
                /\ UNCHANGED <<boundingRect, area, aspectRatio, isValidLightBar>>

\* cv::Mat visualResult; filterLightBars(arg, visualResult): the guard of
\* lines 175-178, then the rest.  filterLightBarsNoGuard is the method without
\* the guard: an empty cv::Mat is of type CV_8UC1 and holds no contour.
filterLightBarsNoGuard(from, fail, arg) ==
    /\ pc = from
    /\ binaryImage' = arg
    /\ filteredResult' = NoBuf
    /\ filterLightBars_enter(fail, IF arg = NoBuf THEN [NoData EXCEPT !.ch = 1] ELSE heap[arg])
    /\ UNCHANGED <<image, extractLocals>>
filterLightBars(from, fail, arg) ==
    /\ pc = from
    /\ binaryImage' = arg
    /\ filteredResult' = NoBuf
    /\ IF Empty(arg)
       THEN /\ Throw(ImageProcessorException("filterLightBars", "binary image is empty"), fail)
            /\ visualResult' = NoBuf
            /\ heap' = [heap EXCEPT !["visualResult"] = NoData]
            /\ FilterLocalsCleared
       ELSE filterLightBars_enter(fail, heap[arg])
    /\ UNCHANGED <<image, extractLocals>>

\* One pass of the for loop, lines 192-231, on contours[i].
\* filterLightBars_loopDrawsAll is the pass with cv::rectangle ahead of the
\* if of line 212, so that every contour gets its rectangle.
filterLightBars_loopDrawsAll ==
    /\ pc = "filter_loop"
    /\ i <= Len(contours)
    /\ LET c == contours[i]
           rect == Rect(c)
           ratio == AspectRatio(c.height, c.width)
           valid == IsValidLightBar(c.area2, ratio, c.width, c.height)
       IN  /\ boundingRect' = rect
           /\ area' = c.area2
           /\ aspectRatio' = ratio
           /\ isValidLightBar' = valid
           /\ IF valid
              THEN /\ validLightBars' = PushBack(validLightBars, rect)
                   /\ heap' = [heap EXCEPT ![visualResult].ink =
                                 @ \o <<DrawRectangle(rect), PutText(rect, c.area2, ratio)>>]
              ELSE /\ heap' = [heap EXCEPT ![visualResult].ink = @ \o <<DrawRectangle(rect)>>]
                   /\ UNCHANGED validLightBars
           /\ i' = i + 1
           /\ UNCHANGED <<pc, error>>
    /\ UNCHANGED <<image, callerMats, extractLocals, binaryImage, contours>>
filterLightBars_loop ==
    /\ pc = "filter_loop"
    /\ i <= Len(contours)
    /\ LET c == contours[i]
           rect == Rect(c)
           ratio == AspectRatio(c.height, c.width)
           valid == IsValidLightBar(c.area2, ratio, c.width, c.height)
       IN  /\ boundingRect' = rect
           /\ area' = c.area2
           /\ IF ratio.trap
              THEN /\ error' = [type |-> "SIGFPE", by |-> "filterLightBars",
                                what |-> "division by zero"]
                   /\ pc' = "crashed"
                   /\ UNCHANGED <<heap, i, validLightBars, aspectRatio, isValidLightBar>>
              ELSE /\ aspectRatio' = ratio
                   /\ isValidLightBar' = valid
                   /\ IF valid
                      THEN /\ validLightBars' = PushBack(validLightBars, rect)
                           /\ heap' = [heap EXCEPT ![visualResult].ink =
                                         @ \o <<DrawRectangle(rect), PutText(rect, c.area2, ratio)>>]
                      ELSE UNCHANGED <<validLightBars, heap>>
                   /\ i' = i + 1
                   /\ UNCHANGED <<pc, error>>
    /\ UNCHANGED <<image, callerMats, extractLocals, binaryImage, contours>>

\* lines 233-234: return visualResult; the locals are destroyed.
filterLightBars_return(to) ==
    /\ pc = "filter_loop"
    /\ i > Len(contours)
    /\ filteredResult' = visualResult
    /\ binaryImage' = NoBuf
    /\ FilterLocalsCleared
    /\ pc' = to
    /\ UNCHANGED <<error, image, heap, visualResult, extractLocals>>

\* --------------------------------------------------------------------- main

\* main(), lines 293-325: the windows and the four cv::imwrite calls, which
\* touch nothing the model holds; then return 0.
main_show_and_save ==
    /\ pc = "main_save"
    /\ pc' = "main_done"
    /\ UNCHANGED <<error, image, heap, callerMats, extractLocals, filterLocals>>

\* The run of main(): every call under the try block in program order; any
\* exception goes to a catch block, which returns -1 ("main_failed").
Init == InitAt("main_start")

Next ==
    \/ Constructor("main_start", "main_info", "main_failed")
    \/ displayImageInfo("main_info", "main_gray")
    \/ convertToGray("main_gray", "main_blur", "main_failed", "grayImage")
    \/ applyMeanBlur("main_blur", "main_gauss", "main_failed", "blurredImage", MainKernelSize)
    \/ applyGaussianBlur("main_gauss", "main_extract", "main_failed", "gaussianBlurred",
                         MainKernelSize)
    \/ extractLightBars("main_extract", "main_failed")
    \/ extractLightBars_open
    \/ extractLightBars_close("main_filter", "lightBarMask")
    \/ filterLightBars("main_filter", "main_failed", "lightBarMask")
    \/ filterLightBars_loop
    \/ filterLightBars_return("main_show")
    \/ getPixelData("main_show", "main_save", "main_failed", "out")
    \/ main_show_and_save

Spec == Init /\ [][Next]_vars

\* ------------------------------------------------------- a caller of the class

\* Kernel sizes a caller passes to the blur methods.
KernelSizes == {0, 3, 4, 5}

\* A caller that constructs one ImageProcessor and then calls its public
\* methods in any order, each result assigned to its variable out, catching
\* what a call throws.  It passes filterLightBars a default-constructed
\* cv::Mat or out when out holds a mask or a colour image.
InitApi == InitAt("start")

NextApi ==
    \/ Constructor("start", "idle", "dead")
    \/ displayImageInfo("idle", "idle")
    \/ getImageSize("idle", "idle", "idle")
    \/ getChannels("idle", "idle", "idle")
    \/ getPixelData("idle", "idle", "idle", "out")
    \/ convertToGray("idle", "idle", "idle", "out")
    \/ \E kernelSize \in KernelSizes :
         applyMeanBlur("idle", "idle", "idle", "out", kernelSize)
    \/ \E kernelSize \in KernelSizes :
         applyGaussianBlur("idle", "idle", "idle", "out", kernelSize)
    \/ extractLightBars("idle", "idle")
    \/ extractLightBars_open
    \/ extractLightBars_close("idle", "out")
    \/ \E arg \in {NoBuf, "out"} :
         /\ arg = "out" => heap["out"].op # "gray"
         /\ filterLightBars("idle", "idle", arg)
    \/ filterLightBars_loop
    \/ filterLightBars_return("idle")

SpecApi == InitApi /\ [][NextApi]_vars

\* ------------------------------------------------------------------ claims

\* The contours the loop has classified so far.
Classified == IF pc = "filter_loop" THEN 1..(i - 1) ELSE {}

\* The four acceptance conditions as the specification words them, with the
\* area in pixels (area2 / 2) and the ratio height / width as a fraction.
Qualifies(c) ==
    /\ 50 * 2 < c.area2 /\ c.area2 < 5000 * 2
    /\ c.width > 3
    /\ c.height > 10
    /\ 15 * c.width < 10 * c.height /\ c.height < 8 * c.width

\* C1: every contour the classifier has looked at is accepted if and only if
\* 50 < area < 5000, 1.5 < height/width < 8.0, width > 3 and height > 10 all
\* hold: the decision on the contour just classified is the conjunction, and
\* the candidates are as many as the qualifying contours classified so far.
C1_AcceptedIffAllFour ==
    pc = "filter_loop" =>
        /\ i > 1 => (isValidLightBar <=> Qualifies(contours[i - 1]))
        /\ Len(validLightBars) = Cardinality({ k \in Classified : Qualifies(contours[k]) })

\* Two contours classified, the first rejected and the second accepted.
C1_Witness ==
    /\ pc = "filter_loop"
    /\ i = 3
    /\ ~Qualifies(contours[1])
    /\ isValidLightBar
    /\ Len(validLightBars) = 1

\* C2: the area and ratio bounds are exclusive.  Area exactly 50 or 5000, or
\* height/width exactly 1.5 or 8.0, is rejected whatever else holds; area 51
\* or 4999, or height/width 1.6 or 7.9, is accepted when the other
\* measurements qualify.
C2_BoundsExclusive ==
    pc = "filter_loop" /\ i > 1 =>
        LET c == contours[i - 1]
            sizeOk == c.width > 3 /\ c.height > 10
            areaOk == 50 * 2 < c.area2 /\ c.area2 < 5000 * 2
            ratioOk == 15 * c.width < 10 * c.height /\ c.height < 8 * c.width
        IN  /\ c.area2 \in {50 * 2, 5000 * 2} => ~isValidLightBar
            /\ c.width > 0 /\ (10 * c.height = 15 * c.width \/ c.height = 8 * c.width)
                   => ~isValidLightBar
            /\ c.area2 \in {51 * 2, 4999 * 2} /\ sizeOk /\ ratioOk => isValidLightBar
            /\ (10 * c.height = 16 * c.width \/ 10 * c.height = 79 * c.width)
                   /\ sizeOk /\ areaOk => isValidLightBar

\* A contour of area 50 rejected, then one of area 51 and the same shape accepted.
C2_Witness ==
    /\ pc = "filter_loop"
    /\ i = 3
    /\ contours[1].area2 = 50 * 2
    /\ contours[2].area2 = 51 * 2
    /\ Rect(contours[1]) = Rect(contours[2])
    /\ validLightBars = <<Rect(contours[2])>>

\* The decision the code takes on contour c.
Accepts(c) ==
    IsValidLightBar(c.area2, AspectRatio(c.height, c.width), c.width, c.height)

\* C3: the candidates are a stable filter of the contours: validLightBars is
\* the sequence of the bounding rectangles of the accepted contours among
\* those classified so far, in extraction order, each once.
C3_StableFilter ==
    pc = "filter_loop" =>
        LET kept == SelectSeq(SubSeq(contours, 1, i - 1), Accepts)
        IN  validLightBars = [k \in 1..Len(kept) |-> Rect(kept[k])]

\* Two different contours accepted, in extraction order.
C3_Witness ==
    /\ pc = "filter_loop"
    /\ i = 3
    /\ Len(validLightBars) = 2
    /\ validLightBars[1] # validLightBars[2]
    /\ validLightBars[1] = Rect(contours[1])

\* C4: a contour whose bounding rectangle has width 0 is rejected and raises
\* no error: the run never ends in a crash, the loop carries no exception,
\* the decision on such a contour is a rejection and no candidate has width 0.
C4_ZeroWidthRejected ==
    /\ pc # "crashed"
    /\ pc = "filter_loop" =>
           /\ error = NoError
           /\ i > 1 /\ contours[i - 1].width = 0 => ~isValidLightBar
           /\ \A k \in 1..Len(validLightBars) : validLightBars[k].width # 0

\* A contour of width 0 and height 12 rejected, and the contour after it
\* classified and accepted.
C4_Witness ==
    /\ pc = "filter_loop"
    /\ i = 3
    /\ contours[1].width = 0
    /\ contours[1].height > 0
    /\ isValidLightBar
    /\ validLightBars = <<Rect(contours[2])>>

InAnyRange(hsv) ==
    /\ \/ 0 <= hsv[1] /\ hsv[1] <= 10
       \/ 160 <= hsv[1] /\ hsv[1] <= 180
       \/ 100 <= hsv[1] /\ hsv[1] <= 130
    /\ 100 <= hsv[2] /\ hsv[2] <= 255
    /\ 100 <= hsv[3] /\ hsv[3] <= 255

\* C6: in the mask extractLightBars builds before the morphology a pixel is
\* foreground if and only if its HSV value lies in red band 1, red band 2 or
\* the blue band (all bounds inclusive), every other pixel is background, and
\* the mask has the dimensions of the image.
C6_RawMaskIsUnionOfRanges ==
    pc = "extract_open" =>
        LET src == heap[image]
        IN  /\ final_mask.rows = src.rows
            /\ final_mask.cols = src.cols
            /\ Len(final_mask.px) = src.rows * src.cols
            /\ \A k \in 1..Len(final_mask.px) :
                 /\ final_mask.px[k] \in {0, 255}
                 /\ final_mask.px[k] = 255 <=> InAnyRange(BGR2HSV(src.px[k]))

\* The raw mask of the 3 x 3 image whose pixels sit next to the bounds: some
\* pixels in, some out.
C6_Witness ==
    /\ pc = "extract_open"
    /\ Len(final_mask.px) = 9
    /\ \E k, j \in 1..Len(final_mask.px) : final_mask.px[k] = 255 /\ final_mask.px[j] = 0

\* C7: an empty input is an error, not a result.  The mask is never built
\* from an empty image and the classifier never runs on an empty mask; a
\* call given one ends with ImageProcessorException at the caller and leaves
\* no mask, no candidate list and no annotated image; a construction that
\* fails leaves no object and no output at all.
C7_EmptyInputFails ==
    /\ pc \in {"extract_open", "extract_close"} => ~Empty(image)
    /\ pc = "filter_loop" => ~Empty(binaryImage)
    /\ error.what \in {"binary image is empty", "image is empty", "cannot load image"}
           => error.type = "ImageProcessorException" /\ pc \in {"idle", "dead"}
    /\ error.what = "binary image is empty" =>
           /\ Empty(binaryImage)
           /\ visualResult = NoBuf
           /\ filteredResult = NoBuf
           /\ heap["visualResult"] = NoData
           /\ contours = <<>>
           /\ validLightBars = <<>>
    /\ error.what = "image is empty" => heap["out"] = NoData /\ final_mask = NoData
    /\ image = NoBuf => \A b \in BufNames : heap[b] = NoData

\* filterLightBars called by a constructed ImageProcessor with an empty
\* cv::Mat has thrown.
C7_Witness ==
    /\ image # NoBuf
    /\ pc = "idle"
    /\ error = ImageProcessorException("filterLightBars", "binary image is empty")
    /\ visualResult = NoBuf

\* Position of each point of main() in the run.
MainRank(p) ==
    CASE p = "main_start" -> 0
      [] p = "main_info" -> 1
      [] p = "main_gray" -> 2
      [] p = "main_blur" -> 3
      [] p = "main_gauss" -> 4
      [] p = "main_extract" -> 5
      [] p = "extract_open" -> 6
      [] p = "extract_close" -> 7
      [] p = "main_filter" -> 8
      [] p = "filter_loop" -> 9
      [] p = "main_show" -> 10
      [] p = "main_save" -> 11
      [] p = "main_done" -> 12
      [] OTHER -> 13

\* A step of the run moves to the next point of main() or to the failure exit.
StageStep == pc' # pc => MainRank(pc') = MainRank(pc) + 1 \/ pc' = "main_failed"

\* The mask is built once at "main_extract" (Masked); one opening, then one
\* closing, whose result is the mask the caller gets (Refined); nothing else
\* writes the mask.
RefineStep ==
    /\ final_mask' # final_mask => pc \in {"main_extract", "extract_open", "extract_close"}
    /\ heap'["lightBarMask"] # heap["lightBarMask"] => pc = "extract_close"
    /\ pc = "extract_open" =>
           final_mask'.px =
               Dilate(Erode(final_mask.px, final_mask.rows, final_mask.cols),
                      final_mask.rows, final_mask.cols)
    /\ pc = "extract_close" =>
           heap'["lightBarMask"].px =
               Erode(Dilate(final_mask.px, final_mask.rows, final_mask.cols),
                     final_mask.rows, final_mask.cols)

Ink == heap["visualResult"].ink

\* C8 as stated: the stages run in the fixed order, each once, refinement once
\* between masking and contour extraction, and nothing is drawn before every
\* contour has been classified.
C8_NoDrawingBeforeAllClassified ==
    [][ /\ StageStep
        /\ RefineStep
        /\ Ink' # Ink => i' > Len(contours') ]_vars

\* C8 as amended: Loaded, Masked, Refined, Contoured in that order, each
\* once and never back, refinement (one open, then one close) once between
\* masking and contour extraction; then one pass in which each contour is
\* classified and, when accepted, annotated in the same pass, before the
\* contours after it are classified.  Nothing else draws.
C8_StagesInOrderOnePass ==
    [][ /\ StageStep
        /\ RefineStep
        /\ Ink' # Ink =>
               /\ pc = "filter_loop" /\ i <= Len(contours) /\ i' = i + 1
               /\ Accepts(contours[i])
               /\ Ink' = Ink \o <<DrawRectangle(Rect(contours[i])),
                                  PutText(Rect(contours[i]), contours[i].area2,
                                          AspectRatio(contours[i].height, contours[i].width))>>
        /\ pc = "filter_loop" /\ pc' = "filter_loop" /\ Accepts(contours[i]) => Ink' # Ink ]_vars

\* The first contour accepted and drawn while the second is still to be
\* classified.
C8_Witness ==
    /\ pc = "filter_loop"
    /\ i = 2
    /\ Len(contours) = 2
    /\ Len(Ink) = 2

\* C9: when the classification and annotation call fails, nothing later runs
\* and no partial result reaches the caller: it holds no image through
\* visualResult or as the return value.
C9_NoPartialResultOnFailure ==
    error.by = "filterLightBars" =>
        /\ pc = "idle"
        /\ contours = <<>>
        /\ Empty(visualResult)
        /\ Empty(filteredResult)

\* C10: no operation changes the image the ImageProcessor holds: every step
\* after construction leaves the member and its pixels as they were, and the
\* caller's visualResult and the returned cv::Mat never refer to the image's
\* buffer, so drawing on them cannot reach it.
C10_ImageNeverMutated ==
    [][ image # NoBuf =>
            /\ image' = image
            /\ heap'[image] = heap[image]
            /\ visualResult' # image
            /\ filteredResult' # image ]_vars

\* filterLightBars has returned an annotated copy and the image is as decoded.
C10_Witness ==
    /\ pc = "idle"
    /\ filteredResult = "visualResult"
    /\ Len(Ink) = 4
    /\ heap["out"].op = "mask"
    /\ heap["image"] \in ImagePool

\* The drawing commands of one kind on an annotated copy, in the order drawn.
Drawn(ink, kind) == SelectSeq(ink, LAMBDA d : d.kind = kind)

\* C11: while filterLightBars runs there is no error, the copy has the
\* original's pixels, and what is drawn on it is one rectangle and one label
\* per accepted candidate, the rectangles those of the accepted candidates in
\* candidate order; with none accepted (no contour at all included) the copy
\* equals the original.  The return hands that copy to the caller unchanged
\* and without error.
C11_DrawnAreTheAccepted ==
    [][ /\ pc' = "filter_loop" =>
               LET accepted == SelectSeq(SubSeq(contours', 1, i' - 1), Accepts)
                   copy == heap'[visualResult']
               IN  /\ error' = NoError
                   /\ [copy EXCEPT !.ink = <<>>] = heap'[image']
                   /\ Len(copy.ink) = 2 * Len(accepted)
                   /\ Drawn(copy.ink, "rectangle") =
                          [k \in 1..Len(accepted) |-> DrawRectangle(Rect(accepted[k]))]
                   /\ Len(Drawn(copy.ink, "text")) = Len(accepted)
                   /\ validLightBars' = [k \in 1..Len(accepted) |-> Rect(accepted[k])]
                   /\ Len(Drawn(copy.ink, "rectangle")) = Len(validLightBars')
                   /\ accepted = <<>> => copy = heap'[image']
        /\ pc = "filter_loop" /\ pc' # "filter_loop" =>
               /\ i > Len(contours)
               /\ error' = NoError
               /\ filteredResult' = visualResult
               /\ heap'[filteredResult'] = heap[visualResult]
               /\ validLightBars = <<>> =>
                      /\ heap'[filteredResult'] = heap[image]
                      /\ Drawn(heap'[filteredResult'].ink, "rectangle") = <<>>
                      /\ Drawn(heap'[filteredResult'].ink, "text") = <<>> ]_vars

\* filterLightBars has returned with no contour accepted: the caller holds an
\* unmarked copy equal to the image.
C11_Witness ==
    /\ pc = "idle"
    /\ error = NoError
    /\ filteredResult = "visualResult"
    /\ heap["out"].op = "mask"
    /\ heap["visualResult"] = heap["image"]
    /\ Ink = <<>>

\* C12: every ImageProcessor that exists holds a non-empty image.  The
\* constructor either leaves an object holding a decoded, non-empty image or
\* ends with ImageProcessorException and no object; no step afterwards
\* empties or replaces the image; and no method ever ends in its "image is
\* empty" branch.
C12_ImageNeverEmpty ==
    [][ /\ image' = NoBuf <=> pc' \in {"start", "dead"}
        /\ pc' = "dead" =>
               /\ error'.type = "ImageProcessorException"
               /\ error'.by = "ImageProcessor"
        /\ image' # NoBuf =>
               /\ ~(heap'[image'].rows = 0 \/ heap'[image'].cols = 0)
               /\ heap'[image'] \in ImagePool
        /\ image # NoBuf =>
               /\ image' = image
               /\ heap'[image'] = heap[image]
        /\ error'.what # "image is empty" ]_vars

\* A constructed processor whose guarded methods have run: the last call,
\* applyGaussianBlur, went past its guard and returned a blurred image.
C12_Witness ==
    /\ pc = "idle"
    /\ image = "image"
    /\ ~Empty(image)
    /\ error = NoError
    /\ heap["out"].op = "gauss"

=============================================================================
